---- MODULE Spec2Model ----
(***************************************************************************)
(* Model of back_go/csv/processor.go: ProcessCSVOptimized, copyInsert and  *)
(* optimizeForBulkInsert, together with the collaborators they drive: the  *)
(* encoding/csv reader over the source file, and the destination reached   *)
(* through database/sql and the pq COPY statement.                         *)
(*                                                                         *)
(* Strings whose characters matter (header names) are sequences of         *)
(* one-character strings; field values are opaque strings.                 *)
(***************************************************************************)
EXTENDS Integers, Sequences, FiniteSets, TLC

\* Largest number of data records (records after the header) in a source file.
MaxRecords == 2

\* len(optimizations) in optimizeForBulkInsert.
NumOptimizations == 9

\* Largest number of characters in a header name of the normalisation runs.
MaxLen == 2

\* "Progress every 100k lines", line 118.
ProgressEvery == 100000

VARIABLES
    table,          \* destination: the committed (visible) relation named tableName
    settings,       \* destination: tuning statements that took effect on the session
    unsupported,    \* destination: tuning statements this engine rejects
    tableAtCall,    \* history: the relation as it was when the invocation started
    pc,             \* position of the single flow of control
    file,           \* the source file behind csvPath
    pos,            \* csv.Reader: number of raw records consumed
    fieldsPerRecord,\* csv.Reader.FieldsPerRecord
    headers,        \* ProcessCSVOptimized: headers
    cleanHeaders,   \* ProcessCSVOptimized: cleanHeaders
    tuneIdx,        \* optimizeForBulkInsert: index of the range loop
    txState,        \* sql.Tx: "none", "open", "committed", "aborted", "rolledback"
    stmtState,      \* COPY statement: "none", "open", "finalized", "closed"
    chanBuf,        \* rows submitted to the COPY channel, not yet flushed
    txRows,         \* rows written inside the atomic unit, not yet committed
    record,         \* copyInsert: record of the current loop iteration
    lineCount,      \* copyInsert: lineCount
    ret,            \* copyInsert: pending return value (int, error)
    result,         \* ProcessCSVOptimized: returned error ("ok" for nil), "none" while running
    errLine,        \* line index formatted into a row-level error, 0 if none
    summary,        \* line count printed by the final COPY summary, -1 if not printed
    fault,          \* history: first call the source or destination failed
                    \* (tuning statements excepted), "none" if none did
    log,            \* history: calls issued to source and destination in this invocation
    cadence,        \* copyInsert: the progress cadence, the literal of line 118
    reports         \* history: line counts printed by the progress report of line 121

vars == << table, settings, unsupported, tableAtCall, pc, file, pos,
           fieldsPerRecord, headers, cleanHeaders, tuneIdx, txState, stmtState,
           chanBuf, txRows, record, lineCount, ret, result, errLine, summary, fault,
           log, cadence, reports >>

----------------------------------------------------------------------------
(* Source files *)

\* A raw record of the file: well formed with fields, or one on which the
\* reader reports a parse or I/O error.
Rec(fs) == [ok |-> TRUE, fields |-> fs]
Malformed == [ok |-> FALSE, fields |-> << >>]

\* header "A b"
HeaderOne == << <<"A", " ", "b">> >>
\* header "B-A,a"
HeaderTwo == << <<"B", "-", "A">>, <<"a">> >>
HeaderRows == {HeaderOne, HeaderTwo}

DataRecords == { Rec(<<"x">>), Rec(<<"y">>), Rec(<<"x", "y">>), Malformed }

RECURSIVE SeqsUpTo(_, _)
SeqsUpTo(S, n) ==
    IF n = 0 THEN { << >> }
    ELSE LET shorter == SeqsUpTo(S, n - 1)
         IN  shorter \cup { Append(s, x) : s \in { t \in shorter : Len(t) = n - 1 }, x \in S }

NoFile == [openable |-> FALSE, recs |-> << >>]
EmptyFile == [openable |-> TRUE, recs |-> << >>]
BadHeaderFile == [openable |-> TRUE, recs |-> << Malformed >>]

Files ==
    { [openable |-> TRUE, recs |-> << Rec(h) >> \o d] :
          h \in HeaderRows, d \in SeqsUpTo(DataRecords, MaxRecords) }
    \cup { NoFile, EmptyFile, BadHeaderFile }

\* The files of the specification that ranges over every engine profile.
TuningFiles ==
    { NoFile, EmptyFile,
      [openable |-> TRUE, recs |-> << Rec(HeaderOne), Rec(<<"x">>) >>],
      [openable |-> TRUE, recs |-> << Rec(HeaderOne), Malformed >>] }

----------------------------------------------------------------------------
(* encoding/csv Reader.Read with the default FieldsPerRecord = 0 *)

\* As ReaderRead, with FieldsPerRecord = -1: no field count check.
ReaderReadAnyCount(recs, p, fpr) ==
    IF p >= Len(recs)
    THEN [rec |-> << >>, err |-> "EOF", pos |-> p, fpr |-> fpr]
    ELSE LET raw == recs[p + 1]
         IN  IF ~raw.ok
             THEN [rec |-> << >>, err |-> "parse", pos |-> p + 1, fpr |-> fpr]
             ELSE [rec |-> raw.fields, err |-> "nil", pos |-> p + 1, fpr |-> fpr]

ReaderRead(recs, p, fpr) ==
    IF p >= Len(recs)
    THEN [rec |-> << >>, err |-> "EOF", pos |-> p, fpr |-> fpr]
    ELSE LET raw == recs[p + 1]
         IN  IF ~raw.ok
             THEN [rec |-> << >>, err |-> "parse", pos |-> p + 1, fpr |-> fpr]
             ELSE IF fpr > 0 /\ Len(raw.fields) # fpr
             THEN [rec |-> raw.fields, err |-> "fieldcount", pos |-> p + 1, fpr |-> fpr]
             ELSE [rec |-> raw.fields, err |-> "nil", pos |-> p + 1,
                   fpr |-> IF fpr = 0 THEN Len(raw.fields) ELSE fpr]

----------------------------------------------------------------------------
(* Header normalisation, lines 47-53 *)

ReplaceAll(s, old, new) == [i \in 1..Len(s) |-> IF s[i] = old THEN new ELSE s[i]]

ToLowerChar(c) ==
    CASE c = "A" -> "a"
      [] c = "B" -> "b"
      [] OTHER -> c

ToLower(s) == [i \in 1..Len(s) |-> ToLowerChar(s[i])]

\* As CleanHeader, with spaces turned into hyphens after the hyphens were replaced.
CleanHeaderSpaceToHyphen(header) == ToLower(ReplaceAll(ReplaceAll(header, "-", "_"), " ", "-"))

CleanHeader(header) == ToLower(ReplaceAll(ReplaceAll(header, " ", "_"), "-", "_"))

CleanHeaders(hs) == [i \in 1..Len(hs) |-> CleanHeader(hs[i])]

----------------------------------------------------------------------------
(* Destination *)

NoTable == [exists |-> FALSE, cols |-> << >>, rows |-> << >>]

\* The destination takes a row of the COPY stream only if it has one value
\* per column of the target relation.
RowFits(values, cols) == Len(values) = Len(cols)

----------------------------------------------------------------------------

\* What the destination engine rejects among the tuning statements: nothing,
\* or the parameters a PostgreSQL 15 session cannot SET (wal_buffers,
\* checkpoint_segments, checkpoint_completion_target, shared_buffers, fsync).
EngineProfiles == { {}, {2, 3, 4, 7, 9} }
AllEngineProfiles == SUBSET (1..NumOptimizations)

\* The cadences of the specification that varies the progress cadence.
Cadences == {1, 2, ProgressEvery}

InitState(profiles, cadences) ==
    /\ cadence \in cadences
    /\ reports = << >>
    /\ table = NoTable
    /\ settings = {}
    /\ unsupported \in profiles
    /\ tableAtCall = NoTable
    /\ pc = "idle"
    /\ file = NoFile
    /\ pos = 0
    /\ fieldsPerRecord = 0
    /\ headers = << >>
    /\ cleanHeaders = << >>
    /\ tuneIdx = 0
    /\ txState = "none"
    /\ stmtState = "none"
    /\ chanBuf = << >>
    /\ txRows = << >>
    /\ record = << >>
    /\ lineCount = 0
    /\ ret = [n |-> 0, err |-> "none"]
    /\ result = "none"
    /\ errLine = 0
    /\ summary = -1
    /\ fault = "none"
    /\ log = << >>

InitWith(profiles) == InitState(profiles, {ProgressEvery})

Init == InitWith(EngineProfiles)

InitCadence == InitState({{2, 3, 4, 7, 9}}, Cadences)

InitTuning == InitWith(AllEngineProfiles)

Op(name, arg) == << name, arg >>

\* ProcessCSVOptimized returns err (lines 20, 29, 41, 59, 65).
Fail(err) ==
    /\ pc' = "done"
    /\ result' = err

\* A caller invokes ProcessCSVOptimized(db, csvPath, tableName), line 15.
Call(f) ==
    /\ pc \in {"idle", "done"}
    /\ pc' = "open"
    /\ file' = f
    /\ tableAtCall' = table
    /\ pos' = 0
    /\ fieldsPerRecord' = 0
    /\ headers' = << >>
    /\ cleanHeaders' = << >>
    /\ tuneIdx' = 0
    /\ txState' = "none"
    /\ stmtState' = "none"
    /\ chanBuf' = << >>
    /\ txRows' = << >>
    /\ record' = << >>
    /\ lineCount' = 0
    /\ ret' = [n |-> 0, err |-> "none"]
    /\ result' = "none"
    /\ errLine' = 0
    /\ summary' = -1
    /\ fault' = "none"
    /\ log' = << >>
    /\ UNCHANGED << table, settings, unsupported >>
    /\ reports' = << >>
    /\ UNCHANGED cadence

\* os.Open, lines 18-22.
OpenFile ==
    /\ pc = "open"
    /\ log' = Append(log, Op("open", 0))
    /\ \/ /\ file.openable
          /\ pc' = "read_header"
          /\ UNCHANGED << result, fault >>
       \/ /\ ~file.openable
          /\ fault' = "open"
          /\ Fail("open")
    /\ UNCHANGED << table, settings, unsupported, tableAtCall, file, pos,
                    fieldsPerRecord, headers, cleanHeaders, tuneIdx, txState,
                    stmtState, chanBuf, txRows, record, lineCount, ret,
                    errLine, summary >>
    /\ UNCHANGED << cadence, reports >>

\* As ReadHeader, with the relation dropped before the header is read.
ReadHeaderAfterDrop ==
    /\ pc = "read_header"
    /\ LET r == ReaderRead(file.recs, pos, fieldsPerRecord)
       IN  /\ pos' = r.pos
           /\ fieldsPerRecord' = r.fpr
           /\ log' = Append(log, Op("header", 0))
           /\ table' = NoTable
           /\ \/ /\ r.err = "nil"
                 /\ headers' = r.rec
                 /\ tuneIdx' = 1
                 /\ pc' = "tune"
                 /\ UNCHANGED << result, fault >>
              \/ /\ r.err # "nil"
                 /\ fault' = "header"
                 /\ Fail("header")
                 /\ UNCHANGED << headers, tuneIdx >>
    /\ UNCHANGED << settings, unsupported, tableAtCall, file,
                    cleanHeaders, txState, stmtState, chanBuf, txRows, record,
                    lineCount, ret, errLine, summary >>
    /\ UNCHANGED << cadence, reports >>

\* reader.Read() of the header, lines 24-30.
ReadHeader ==
    /\ pc = "read_header"
    /\ LET r == ReaderRead(file.recs, pos, fieldsPerRecord)
       IN  /\ pos' = r.pos
           /\ fieldsPerRecord' = r.fpr
           /\ log' = Append(log, Op("header", 0))
           /\ \/ /\ r.err = "nil"
                 /\ headers' = r.rec
                 /\ tuneIdx' = 1
                 /\ pc' = "tune"
                 /\ UNCHANGED << result, fault >>
              \/ /\ r.err # "nil"
                 /\ fault' = "header"
                 /\ Fail("header")
                 /\ UNCHANGED << headers, tuneIdx >>
    /\ UNCHANGED << table, settings, unsupported, tableAtCall, file,
                    cleanHeaders, txState, stmtState, chanBuf, txRows, record,
                    lineCount, ret, errLine, summary >>
    /\ UNCHANGED << cadence, reports >>

\* As TuneStep, with a rejected statement returned as the load's error.
TuneStepAbort ==
    /\ pc = "tune"
    /\ log' = Append(log, Op("tune", tuneIdx))
    /\ \/ /\ tuneIdx \notin unsupported
          /\ settings' = settings \cup {tuneIdx}
          /\ IF tuneIdx = NumOptimizations
             THEN pc' = "drop" /\ UNCHANGED tuneIdx
             ELSE pc' = "tune" /\ tuneIdx' = tuneIdx + 1
          /\ UNCHANGED result
       \/ /\ tuneIdx \in unsupported
          /\ Fail("tune")
          /\ UNCHANGED << settings, tuneIdx >>
    /\ UNCHANGED << table, unsupported, tableAtCall, file, pos,
                    fieldsPerRecord, headers, cleanHeaders, txState, stmtState,
                    chanBuf, txRows, record, lineCount, ret, errLine,
                    summary, fault >>
    /\ UNCHANGED << cadence, reports >>

\* One iteration of the range loop of optimizeForBulkInsert, lines 155-159:
\* db.Exec(sql), and continue whether or not it failed.  After the last
\* statement the function returns nil (line 162) and line 36 drops the value.
TuneStep ==
    /\ pc = "tune"
    /\ log' = Append(log, Op("tune", tuneIdx))
    /\ \/ /\ tuneIdx \notin unsupported
          /\ settings' = settings \cup {tuneIdx}
       \/ /\ tuneIdx \in unsupported
          /\ UNCHANGED settings
    /\ IF tuneIdx = NumOptimizations
       THEN pc' = "drop" /\ UNCHANGED tuneIdx
       ELSE pc' = "tune" /\ tuneIdx' = tuneIdx + 1
    /\ UNCHANGED << table, unsupported, tableAtCall, file, pos,
                    fieldsPerRecord, headers, cleanHeaders, txState, stmtState,
                    chanBuf, txRows, record, lineCount, ret, result, errLine,
                    summary, fault >>
    /\ UNCHANGED << cadence, reports >>

\* As DropTable, with the error of the statement ignored.
DropTableUnchecked ==
    /\ pc = "drop"
    /\ log' = Append(log, Op("drop", 0))
    /\ \/ /\ table' = NoTable
          /\ UNCHANGED fault
       \/ /\ fault' = "drop"
          /\ UNCHANGED table
    /\ pc' = "create"
    /\ UNCHANGED << settings, unsupported, tableAtCall, file, pos,
                    fieldsPerRecord, headers, cleanHeaders, tuneIdx, txState,
                    stmtState, chanBuf, txRows, record, lineCount, ret, result,
                    errLine, summary >>
    /\ UNCHANGED << cadence, reports >>

\* As DropTable, with the rows deleted and the relation kept.
DropTableRowsOnly ==
    /\ pc = "drop"
    /\ log' = Append(log, Op("drop", 0))
    /\ \/ /\ table' = [table EXCEPT !.rows = << >>]
          /\ pc' = "create"
          /\ UNCHANGED << result, fault >>
       \/ /\ fault' = "drop"
          /\ Fail("drop")
          /\ UNCHANGED table
    /\ UNCHANGED << settings, unsupported, tableAtCall, file, pos,
                    fieldsPerRecord, headers, cleanHeaders, tuneIdx, txState,
                    stmtState, chanBuf, txRows, record, lineCount, ret,
                    errLine, summary >>
    /\ UNCHANGED << cadence, reports >>

\* DROP TABLE IF EXISTS, lines 39-42.
DropTable ==
    /\ pc = "drop"
    /\ log' = Append(log, Op("drop", 0))
    /\ \/ /\ table' = NoTable
          /\ pc' = "create"
          /\ UNCHANGED << result, fault >>
       \/ /\ fault' = "drop"
          /\ Fail("drop")
          /\ UNCHANGED table
    /\ UNCHANGED << settings, unsupported, tableAtCall, file, pos,
                    fieldsPerRecord, headers, cleanHeaders, tuneIdx, txState,
                    stmtState, chanBuf, txRows, record, lineCount, ret,
                    errLine, summary >>
    /\ UNCHANGED << cadence, reports >>

\* Lines 45-60: normalise the header, then CREATE UNLOGGED TABLE.  The
\* destination rejects the statement if the relation already exists, and may
\* reject it for any other reason (invalid or duplicate column names, ...).
CreateTable ==
    /\ pc = "create"
    /\ cleanHeaders' = CleanHeaders(headers)
    /\ log' = Append(log, Op("create", 0))
    /\ \/ /\ ~table.exists
          /\ table' = [exists |-> TRUE, cols |-> cleanHeaders', rows |-> << >>]
          /\ pc' = "begin"
          /\ UNCHANGED << result, fault >>
       \/ /\ fault' = IF fault = "none" THEN "create" ELSE fault
          /\ Fail("create")
          /\ UNCHANGED table
    /\ UNCHANGED << settings, unsupported, tableAtCall, file, pos,
                    fieldsPerRecord, headers, tuneIdx, txState, stmtState,
                    chanBuf, txRows, record, lineCount, ret, errLine, summary >>
    /\ UNCHANGED << cadence, reports >>

\* copyInsert: db.Begin(), lines 78-82.  On failure copyInsert returns before
\* the rollback is deferred, and line 65 returns its error.
Begin ==
    /\ pc = "begin"
    /\ log' = Append(log, Op("begin", 0))
    /\ \/ /\ txState' = "open"
          /\ pc' = "prepare"
          /\ UNCHANGED << ret, result, fault >>
       \/ /\ ret' = [n |-> 0, err |-> "begin"]
          /\ fault' = "begin"
          /\ Fail("begin")
          /\ UNCHANGED txState
    /\ UNCHANGED << table, settings, unsupported, tableAtCall, file, pos,
                    fieldsPerRecord, headers, cleanHeaders, tuneIdx, stmtState,
                    chanBuf, txRows, record, lineCount, errLine, summary >>
    /\ UNCHANGED << cadence, reports >>

\* copyInsert: tx.Prepare(pq.CopyIn(tableName, headers...)), lines 85-91.
Prepare ==
    /\ pc = "prepare"
    /\ log' = Append(log, Op("prepare", 0))
    /\ \/ /\ table.exists
          /\ stmtState' = "open"
          /\ pc' = "loop_read"
          /\ UNCHANGED << ret, fault >>
       \/ /\ ret' = [n |-> 0, err |-> "prepare"]
          /\ fault' = "prepare"
          /\ pc' = "deferred"
          /\ UNCHANGED stmtState
    /\ lineCount' = 0
    /\ UNCHANGED << table, settings, unsupported, tableAtCall, file, pos,
                    fieldsPerRecord, headers, cleanHeaders, tuneIdx, txState,
                    chanBuf, txRows, record, result, errLine, summary >>
    /\ UNCHANGED << cadence, reports >>

\* As LoopRead, with a source that has no data record treated as a read error.
LoopReadRejectEmpty ==
    /\ pc = "loop_read"
    /\ LET r == ReaderRead(file.recs, pos, fieldsPerRecord)
       IN  /\ pos' = r.pos
           /\ fieldsPerRecord' = r.fpr
           /\ log' = Append(log, Op("read", lineCount + 1))
           /\ \/ /\ r.err = "nil"
                 /\ record' = r.rec
                 /\ pc' = "loop_exec"
                 /\ UNCHANGED << ret, errLine, fault >>
              \/ /\ r.err = "EOF" /\ lineCount > 0
                 /\ pc' = "finalize"
                 /\ UNCHANGED << record, ret, errLine, fault >>
              \/ /\ r.err \notin {"nil", "EOF"}
                 /\ ret' = [n |-> 0, err |-> "read"]
                 /\ errLine' = lineCount + 1
                 /\ fault' = "read"
                 /\ pc' = "deferred"
                 /\ UNCHANGED record
              \/ /\ r.err = "EOF" /\ lineCount = 0
                 /\ ret' = [n |-> 0, err |-> "read"]
                 /\ errLine' = 1
                 /\ pc' = "deferred"
                 /\ UNCHANGED << record, fault >>
    /\ UNCHANGED << table, settings, unsupported, tableAtCall, file, headers,
                    cleanHeaders, tuneIdx, txState, stmtState, chanBuf, txRows,
                    lineCount, result, summary >>
    /\ UNCHANGED << cadence, reports >>
\* As LoopRead, with the loop left by break on any read error.
LoopReadBreakOnError ==
    /\ pc = "loop_read"
    /\ LET r == ReaderRead(file.recs, pos, fieldsPerRecord)
       IN  /\ pos' = r.pos
           /\ fieldsPerRecord' = r.fpr
           /\ log' = Append(log, Op("read", lineCount + 1))
           /\ \/ /\ r.err = "nil"
                 /\ record' = r.rec
                 /\ pc' = "loop_exec"
                 /\ UNCHANGED << ret, errLine, fault >>
              \/ /\ r.err = "EOF"
                 /\ pc' = "finalize"
                 /\ UNCHANGED << record, ret, errLine, fault >>
              \/ /\ r.err \notin {"nil", "EOF"}
                 /\ ret' = [n |-> 0, err |-> "read"]
                 /\ errLine' = lineCount + 1
                 /\ fault' = "read"
                 /\ pc' = "finalize"
                 /\ UNCHANGED record
    /\ UNCHANGED << table, settings, unsupported, tableAtCall, file, headers,
                    cleanHeaders, tuneIdx, txState, stmtState, chanBuf, txRows,
                    lineCount, result, summary >>
    /\ UNCHANGED << cadence, reports >>
\* As LoopRead, with a second reader.Read() per iteration whose record is dropped.
LoopReadTwice ==
    /\ pc = "loop_read"
    /\ LET r == ReaderRead(file.recs, pos, fieldsPerRecord)
       IN  /\ pos' = IF r.err = "nil" THEN r.pos + 1 ELSE r.pos
           /\ fieldsPerRecord' = r.fpr
           /\ log' = Append(log, Op("read", lineCount + 1))
           /\ \/ /\ r.err = "nil"
                 /\ record' = r.rec
                 /\ pc' = "loop_exec"
                 /\ UNCHANGED << ret, errLine, fault >>
              \/ /\ r.err = "EOF"
                 /\ pc' = "finalize"
                 /\ UNCHANGED << record, ret, errLine, fault >>
              \/ /\ r.err \notin {"nil", "EOF"}
                 /\ ret' = [n |-> 0, err |-> "read"]
                 /\ errLine' = lineCount + 1
                 /\ fault' = "read"
                 /\ pc' = "deferred"
                 /\ UNCHANGED record
    /\ UNCHANGED << table, settings, unsupported, tableAtCall, file, headers,
                    cleanHeaders, tuneIdx, txState, stmtState, chanBuf, txRows,
                    lineCount, result, summary >>
    /\ UNCHANGED << cadence, reports >>
\* As LoopRead, with the loop continued at the end of the stream.
LoopReadIgnoreEOF ==
    /\ pc = "loop_read"
    /\ LET r == ReaderRead(file.recs, pos, fieldsPerRecord)
       IN  /\ pos' = r.pos
           /\ fieldsPerRecord' = r.fpr
           /\ log' = IF r.err = "EOF" THEN log ELSE Append(log, Op("read", lineCount + 1))
           /\ \/ /\ r.err = "nil"
                 /\ record' = r.rec
                 /\ pc' = "loop_exec"
                 /\ UNCHANGED << ret, errLine, fault >>
              \/ /\ r.err = "EOF"
                 /\ pc' = "loop_read"
                 /\ UNCHANGED << record, ret, errLine, fault >>
              \/ /\ r.err \notin {"nil", "EOF"}
                 /\ ret' = [n |-> 0, err |-> "read"]
                 /\ errLine' = lineCount + 1
                 /\ fault' = "read"
                 /\ pc' = "deferred"
                 /\ UNCHANGED record
    /\ UNCHANGED << table, settings, unsupported, tableAtCall, file, headers,
                    cleanHeaders, tuneIdx, txState, stmtState, chanBuf, txRows,
                    lineCount, result, summary >>
    /\ UNCHANGED << cadence, reports >>

\* copyInsert: reader.Read() at the top of the loop, lines 97-103.
LoopRead ==
    /\ pc = "loop_read"
    /\ LET r == ReaderRead(file.recs, pos, fieldsPerRecord)
       IN  /\ pos' = r.pos
           /\ fieldsPerRecord' = r.fpr
           /\ log' = Append(log, Op("read", lineCount + 1))
           /\ \/ /\ r.err = "nil"
                 /\ record' = r.rec
                 /\ pc' = "loop_exec"
                 /\ UNCHANGED << ret, errLine, fault >>
              \/ /\ r.err = "EOF"
                 /\ pc' = "finalize"
                 /\ UNCHANGED << record, ret, errLine, fault >>
              \/ /\ r.err \notin {"nil", "EOF"}
                 /\ ret' = [n |-> 0, err |-> "read"]
                 /\ errLine' = lineCount + 1
                 /\ fault' = "read"
                 /\ pc' = "deferred"
                 /\ UNCHANGED record
    /\ UNCHANGED << table, settings, unsupported, tableAtCall, file, headers,
                    cleanHeaders, tuneIdx, txState, stmtState, chanBuf, txRows,
                    lineCount, result, summary >>
    /\ UNCHANGED << cadence, reports >>

\* As LoopExec, with each row written outside the atomic unit.
LoopExecAutocommit ==
    /\ pc = "loop_exec"
    /\ log' = Append(log, Op("submit", lineCount + 1))
    /\ \/ /\ RowFits(record, table.cols)
          /\ table' = [table EXCEPT !.rows = Append(@, record)]
          /\ UNCHANGED chanBuf
          /\ lineCount' = lineCount + 1
          /\ reports' = IF lineCount' % cadence = 0
                        THEN Append(reports, lineCount')
                        ELSE reports
          /\ pc' = "loop_read"
          /\ UNCHANGED << ret, errLine, fault >>
       \/ /\ ret' = [n |-> 0, err |-> "copy"]
          /\ errLine' = lineCount + 1
          /\ fault' = "copy"
          /\ pc' = "deferred"
          /\ UNCHANGED << table, chanBuf, lineCount, reports >>
    /\ UNCHANGED << settings, unsupported, tableAtCall, file, pos,
                    fieldsPerRecord, headers, cleanHeaders, tuneIdx, txState,
                    stmtState, txRows, record, result, summary >>
    /\ UNCHANGED cadence

\* As LoopExec, with the values filled in from the last field to the first.
LoopExecReversed ==
    /\ pc = "loop_exec"
    /\ log' = Append(log, Op("submit", lineCount + 1))
    /\ \/ /\ RowFits(record, table.cols)
          /\ chanBuf' = Append(chanBuf, [i \in 1..Len(record) |-> record[Len(record) + 1 - i]])
          /\ UNCHANGED table
          /\ lineCount' = lineCount + 1
          /\ reports' = IF lineCount' % cadence = 0
                        THEN Append(reports, lineCount')
                        ELSE reports
          /\ pc' = "loop_read"
          /\ UNCHANGED << ret, errLine, fault >>
       \/ /\ ret' = [n |-> 0, err |-> "copy"]
          /\ errLine' = lineCount + 1
          /\ fault' = "copy"
          /\ pc' = "deferred"
          /\ UNCHANGED << table, chanBuf, lineCount, reports >>
    /\ UNCHANGED << settings, unsupported, tableAtCall, file, pos,
                    fieldsPerRecord, headers, cleanHeaders, tuneIdx, txState,
                    stmtState, txRows, record, result, summary >>
    /\ UNCHANGED cadence
\* As LoopExec, with the 0-based line index in the error.
LoopExecZeroBased ==
    /\ pc = "loop_exec"
    /\ log' = Append(log, Op("submit", lineCount + 1))
    /\ \/ /\ RowFits(record, table.cols)
          /\ chanBuf' = Append(chanBuf, record)
          /\ UNCHANGED table
          /\ lineCount' = lineCount + 1
          /\ reports' = IF lineCount' % cadence = 0
                        THEN Append(reports, lineCount')
                        ELSE reports
          /\ pc' = "loop_read"
          /\ UNCHANGED << ret, errLine, fault >>
       \/ /\ ret' = [n |-> 0, err |-> "copy"]
          /\ errLine' = lineCount
          /\ fault' = "copy"
          /\ pc' = "deferred"
          /\ UNCHANGED << table, chanBuf, lineCount, reports >>
    /\ UNCHANGED << settings, unsupported, tableAtCall, file, pos,
                    fieldsPerRecord, headers, cleanHeaders, tuneIdx, txState,
                    stmtState, txRows, record, result, summary >>
    /\ UNCHANGED cadence
\* As LoopExec, with lineCount incremented before the row is submitted.
LoopExecCountOnFailure ==
    /\ pc = "loop_exec"
    /\ log' = Append(log, Op("submit", lineCount + 1))
    /\ \/ /\ RowFits(record, table.cols)
          /\ chanBuf' = Append(chanBuf, record)
          /\ UNCHANGED table
          /\ lineCount' = lineCount + 1
          /\ reports' = IF lineCount' % cadence = 0
                        THEN Append(reports, lineCount')
                        ELSE reports
          /\ pc' = "loop_read"
          /\ UNCHANGED << ret, errLine, fault >>
       \/ /\ ret' = [n |-> 0, err |-> "copy"]
          /\ errLine' = lineCount + 1
          /\ fault' = "copy"
          /\ pc' = "deferred"
          /\ lineCount' = lineCount + 1
          /\ UNCHANGED << table, chanBuf, reports >>
    /\ UNCHANGED << settings, unsupported, tableAtCall, file, pos,
                    fieldsPerRecord, headers, cleanHeaders, tuneIdx, txState,
                    stmtState, txRows, record, result, summary >>
    /\ UNCHANGED cadence
\* As LoopExec, with a rejected row skipped and the loop continued.
LoopExecSkipBadRow ==
    /\ pc = "loop_exec"
    /\ log' = Append(log, Op("submit", lineCount + 1))
    /\ \/ /\ RowFits(record, table.cols)
          /\ chanBuf' = Append(chanBuf, record)
          /\ UNCHANGED table
          /\ lineCount' = lineCount + 1
          /\ reports' = IF lineCount' % cadence = 0
                        THEN Append(reports, lineCount')
                        ELSE reports
          /\ pc' = "loop_read"
          /\ UNCHANGED << ret, errLine, fault >>
       \/ /\ ret' = [n |-> 0, err |-> "copy"]
          /\ errLine' = lineCount + 1
          /\ fault' = "copy"
          /\ pc' = "loop_read"
          /\ UNCHANGED << table, chanBuf, lineCount, reports >>
    /\ UNCHANGED << settings, unsupported, tableAtCall, file, pos,
                    fieldsPerRecord, headers, cleanHeaders, tuneIdx, txState,
                    stmtState, txRows, record, result, summary >>
    /\ UNCHANGED cadence
\* As LoopExec, with the cadence tested before lineCount is incremented.
LoopExecReportBeforeIncrement ==
    /\ pc = "loop_exec"
    /\ log' = Append(log, Op("submit", lineCount + 1))
    /\ \/ /\ RowFits(record, table.cols)
          /\ chanBuf' = Append(chanBuf, record)
          /\ UNCHANGED table
          /\ lineCount' = lineCount + 1
          /\ reports' = IF lineCount % cadence = 0
                        THEN Append(reports, lineCount)
                        ELSE reports
          /\ pc' = "loop_read"
          /\ UNCHANGED << ret, errLine, fault >>
       \/ /\ ret' = [n |-> 0, err |-> "copy"]
          /\ errLine' = lineCount + 1
          /\ fault' = "copy"
          /\ pc' = "deferred"
          /\ UNCHANGED << table, chanBuf, lineCount, reports >>
    /\ UNCHANGED << settings, unsupported, tableAtCall, file, pos,
                    fieldsPerRecord, headers, cleanHeaders, tuneIdx, txState,
                    stmtState, txRows, record, result, summary >>
    /\ UNCHANGED cadence

\* copyInsert: stmt.Exec(values...) and lineCount++, lines 106-115.
LoopExec ==
    /\ pc = "loop_exec"
    /\ log' = Append(log, Op("submit", lineCount + 1))
    /\ \/ /\ RowFits(record, table.cols)
          /\ chanBuf' = Append(chanBuf, record)
          /\ UNCHANGED table
          /\ lineCount' = lineCount + 1
          /\ reports' = IF lineCount' % cadence = 0
                        THEN Append(reports, lineCount')
                        ELSE reports
          /\ pc' = "loop_read"
          /\ UNCHANGED << ret, errLine, fault >>
       \/ /\ ret' = [n |-> 0, err |-> "copy"]
          /\ errLine' = lineCount + 1
          /\ fault' = "copy"
          /\ pc' = "deferred"
          /\ UNCHANGED << table, chanBuf, lineCount, reports >>
    /\ UNCHANGED << settings, unsupported, tableAtCall, file, pos,
                    fieldsPerRecord, headers, cleanHeaders, tuneIdx, txState,
                    stmtState, txRows, record, result, summary >>
    /\ UNCHANGED cadence

\* copyInsert: stmt.Exec() with no arguments flushes the COPY stream into the
\* atomic unit, lines 126-128.
Finalize ==
    /\ pc = "finalize"
    /\ log' = Append(log, Op("finalize", 0))
    /\ \/ /\ txRows' = txRows \o chanBuf
          /\ chanBuf' = << >>
          /\ stmtState' = "finalized"
          /\ pc' = "close"
          /\ UNCHANGED << ret, fault >>
       \/ /\ ret' = [n |-> 0, err |-> "finalize"]
          /\ fault' = "finalize"
          /\ pc' = "deferred"
          /\ UNCHANGED << txRows, chanBuf, stmtState >>
    /\ UNCHANGED << table, settings, unsupported, tableAtCall, file, pos,
                    fieldsPerRecord, headers, cleanHeaders, tuneIdx, txState,
                    record, lineCount, result, errLine, summary >>
    /\ UNCHANGED << cadence, reports >>

\* copyInsert: stmt.Close(), lines 130-132.
CloseStmt ==
    /\ pc = "close"
    /\ log' = Append(log, Op("close", 0))
    /\ \/ /\ stmtState' = "closed"
          /\ pc' = "commit"
          /\ UNCHANGED << ret, fault >>
       \/ /\ ret' = [n |-> 0, err |-> "close"]
          /\ fault' = "close"
          /\ pc' = "deferred"
          /\ UNCHANGED stmtState
    /\ UNCHANGED << table, settings, unsupported, tableAtCall, file, pos,
                    fieldsPerRecord, headers, cleanHeaders, tuneIdx, txState,
                    chanBuf, txRows, record, lineCount, result, errLine,
                    summary >>
    /\ UNCHANGED << cadence, reports >>

\* As Commit, with the error of tx.Commit() ignored.
CommitUnchecked ==
    /\ pc = "commit"
    /\ log' = Append(log, Op("commit", 0))
    /\ \/ /\ txState' = "committed"
          /\ table' = [table EXCEPT !.rows = @ \o txRows]
          /\ ret' = [n |-> lineCount, err |-> "nil"]
          /\ UNCHANGED fault
       \/ /\ txState' = "aborted"
          /\ ret' = [n |-> lineCount, err |-> "nil"]
          /\ fault' = "commit"
          /\ UNCHANGED table
    /\ txRows' = << >>
    /\ pc' = "deferred"
    /\ UNCHANGED << settings, unsupported, tableAtCall, file, pos,
                    fieldsPerRecord, headers, cleanHeaders, tuneIdx, stmtState,
                    chanBuf, record, lineCount, result, errLine, summary >>
    /\ UNCHANGED << cadence, reports >>

\* copyInsert: tx.Commit() and the return that follows, lines 135-139.
\* database/sql marks the Tx done before it sends COMMIT, whatever the
\* outcome; a rejected COMMIT aborts the unit at the destination.
Commit ==
    /\ pc = "commit"
    /\ log' = Append(log, Op("commit", 0))
    /\ \/ /\ txState' = "committed"
          /\ table' = [table EXCEPT !.rows = @ \o txRows]
          /\ ret' = [n |-> lineCount, err |-> "nil"]
          /\ UNCHANGED fault
       \/ /\ txState' = "aborted"
          /\ ret' = [n |-> 0, err |-> "commit"]
          /\ fault' = "commit"
          /\ UNCHANGED table
    /\ txRows' = << >>
    /\ pc' = "deferred"
    /\ UNCHANGED << settings, unsupported, tableAtCall, file, pos,
                    fieldsPerRecord, headers, cleanHeaders, tuneIdx, stmtState,
                    chanBuf, record, lineCount, result, errLine, summary >>
    /\ UNCHANGED << cadence, reports >>

\* As DeferredRollback, without the defer of line 82.
DeferredRollbackMissing ==
    /\ pc = "deferred"
    /\ log' = Append(log, Op("rollback", 0))
    /\ \/ /\ txState = "open"
          /\ UNCHANGED << txState, stmtState, chanBuf, txRows >>
       \/ /\ txState # "open"
          /\ UNCHANGED << txState, stmtState, chanBuf, txRows >>
    /\ pc' = "returned"
    /\ UNCHANGED << table, settings, unsupported, tableAtCall, file, pos,
                    fieldsPerRecord, headers, cleanHeaders, tuneIdx, record,
                    lineCount, ret, result, errLine, summary, fault >>
    /\ UNCHANGED << cadence, reports >>
\* As DeferredRollback, with the drop and the create inside the atomic unit.
DeferredRollbackRestoresRelation ==
    /\ pc = "deferred"
    /\ log' = Append(log, Op("rollback", 0))
    /\ \/ /\ txState = "open"
          /\ txState' = "rolledback"
          /\ stmtState' = IF stmtState = "none" THEN "none" ELSE "closed"
          /\ chanBuf' = << >>
          /\ txRows' = << >>
          /\ table' = tableAtCall
       \/ /\ txState # "open"
          /\ UNCHANGED << txState, stmtState, chanBuf, txRows, table >>
    /\ pc' = "returned"
    /\ UNCHANGED << settings, unsupported, tableAtCall, file, pos,
                    fieldsPerRecord, headers, cleanHeaders, tuneIdx, record,
                    lineCount, ret, result, errLine, summary, fault >>
    /\ UNCHANGED << cadence, reports >>

\* copyInsert: the deferred tx.Rollback() of line 82, run on every return
\* after Begin succeeded.  On a Tx that is already done it returns ErrTxDone
\* and sends nothing; otherwise it discards the unit and its COPY statement.
DeferredRollback ==
    /\ pc = "deferred"
    /\ log' = Append(log, Op("rollback", 0))
    /\ \/ /\ txState = "open"
          /\ txState' = "rolledback"
          /\ stmtState' = IF stmtState = "none" THEN "none" ELSE "closed"
          /\ chanBuf' = << >>
          /\ txRows' = << >>
       \/ /\ txState # "open"
          /\ UNCHANGED << txState, stmtState, chanBuf, txRows >>
    /\ pc' = "returned"
    /\ UNCHANGED << table, settings, unsupported, tableAtCall, file, pos,
                    fieldsPerRecord, headers, cleanHeaders, tuneIdx, record,
                    lineCount, ret, result, errLine, summary, fault >>
    /\ UNCHANGED << cadence, reports >>

\* ProcessCSVOptimized after copyInsert returned, lines 63-73.
Finish ==
    /\ pc = "returned"
    /\ \/ /\ ret.err # "nil"
          /\ Fail(ret.err)
          /\ UNCHANGED summary
       \/ /\ ret.err = "nil"
          /\ summary' = ret.n
          /\ result' = "ok"
          /\ pc' = "done"
    /\ UNCHANGED << table, settings, unsupported, tableAtCall, file, pos,
                    fieldsPerRecord, headers, cleanHeaders, tuneIdx, txState,
                    stmtState, chanBuf, txRows, record, lineCount, ret,
                    errLine, fault, log >>
    /\ UNCHANGED << cadence, reports >>
----------------------------------------------------------------------------
(* Header normalisation on its own: the loop of lines 45-53 applied to a    *)
(* header row, and applied again to its own result.                         *)

UpperCase == {"A", "B"}
Alphabet == UpperCase \cup {"a", " ", "-", "_"}
HeaderNames == SeqsUpTo(Alphabet, MaxLen)
\* Header rows of one and of two columns.
NormalizeInputs ==
    { << n >> : n \in HeaderNames } \cup { << n, m >> : n \in HeaderNames, m \in HeaderNames }

InitNormalize ==
    /\ pc = "norm"
    /\ headers \in NormalizeInputs
    /\ cleanHeaders = << >>
    /\ cadence = ProgressEvery
    /\ reports = << >>
    /\ table = NoTable
    /\ settings = {}
    /\ unsupported = {}
    /\ tableAtCall = NoTable
    /\ file = NoFile
    /\ pos = 0
    /\ fieldsPerRecord = 0
    /\ tuneIdx = 0
    /\ txState = "none"
    /\ stmtState = "none"
    /\ chanBuf = << >>
    /\ txRows = << >>
    /\ record = << >>
    /\ lineCount = 0
    /\ ret = [n |-> 0, err |-> "none"]
    /\ result = "none"
    /\ errLine = 0
    /\ summary = -1
    /\ fault = "none"
    /\ log = << >>

\* The loop of lines 45-53 over headers.
NormalizeHeaders ==
    /\ pc = "norm"
    /\ cleanHeaders' = CleanHeaders(headers)
    /\ pc' = "norm_again"
    /\ UNCHANGED << table, settings, unsupported, tableAtCall, file, pos,
                    fieldsPerRecord, headers, tuneIdx, txState, stmtState,
                    chanBuf, txRows, record, lineCount, ret, result, errLine,
                    summary, fault, log, cadence, reports >>

\* The same loop over the header row it produced.
NormalizeAgain ==
    /\ pc = "norm_again"
    /\ headers' = cleanHeaders
    /\ cleanHeaders' = CleanHeaders(cleanHeaders)
    /\ pc' = "norm_done"
    /\ UNCHANGED << table, settings, unsupported, tableAtCall, file, pos,
                    fieldsPerRecord, tuneIdx, txState, stmtState,
                    chanBuf, txRows, record, lineCount, ret, result, errLine,
                    summary, fault, log, cadence, reports >>

NextNormalize ==
    \/ NormalizeHeaders
    \/ NormalizeAgain

SpecNormalize == InitNormalize /\ [][NextNormalize]_vars

----------------------------------------------------------------------------

\* The steps of one invocation.
Step ==
    \/ OpenFile
    \/ ReadHeader
    \/ TuneStep
    \/ DropTable
    \/ CreateTable
    \/ Begin
    \/ Prepare
    \/ LoopRead
    \/ LoopExec
    \/ Finalize
    \/ CloseStmt
    \/ Commit
    \/ DeferredRollback
    \/ Finish

Next ==
    \/ \E f \in Files : Call(f)
    \/ Step

Spec == Init /\ [][Next]_vars

NextTuning ==
    \/ \E f \in TuningFiles : Call(f)
    \/ Step

\* Every engine profile, over the files of TuningFiles.
SpecTuning == InitTuning /\ [][NextTuning]_vars

\* One invocation, on a destination that holds no relation yet.
NextOnce ==
    \/ \E f \in Files : pc = "idle" /\ Call(f)
    \/ Step

\* The flow of control is sequential and every call to the source or to the
\* destination returns, so an invocation that can take a step takes it.
SpecFair == Init /\ [][NextOnce]_vars /\ WF_vars(Step)

\* Every cadence of Cadences, over every file.
SpecCadence == InitCadence /\ [][Next]_vars

TypeOK ==
    /\ pc \in {"idle", "open", "read_header", "tune", "drop", "create", "begin",
               "prepare", "loop_read", "loop_exec", "finalize", "close",
               "commit", "deferred", "returned", "done"}
    /\ txState \in {"none", "open", "committed", "aborted", "rolledback"}
    /\ stmtState \in {"none", "open", "finalized", "closed"}
    /\ lineCount \in 0..MaxRecords
    /\ summary \in -1..MaxRecords

----------------------------------------------------------------------------
(* Vocabulary of the properties *)

HeaderOf(f) == f.recs[1].fields
NumData(f) == Len(f.recs) - 1
HasHeader(f) == f.openable /\ Len(f.recs) >= 1 /\ f.recs[1].ok
\* Data record k (1-based, header excluded) parses but has another field
\* count than the header.
Ragged(f, k) == f.recs[k + 1].ok /\ Len(f.recs[k + 1].fields) # Len(HeaderOf(f))
WellFormed(f) ==
    /\ HasHeader(f)
    /\ \A k \in 1..NumData(f) : f.recs[k + 1].ok /\ ~Ragged(f, k)
ExpectedRows(f) == [k \in 1..NumData(f) |-> f.recs[k + 1].fields]
ExpectedCols(f) == CleanHeaders(HeaderOf(f))
Issued(name) == \E i \in DOMAIN log : log[i][1] = name
Count(name) == Cardinality({ i \in DOMAIN log : log[i][1] = name })
TuneOps(n) == [i \in 1..n |-> Op("tune", i)]
CopyFaults == {"read", "copy", "finalize", "close", "commit"}

----------------------------------------------------------------------------
(* Properties *)

\* C1: all-or-nothing.  When reading or submitting a data record fails, or
\* finalize, close or commit fails, then once ProcessCSVOptimized has
\* returned the destination relation shows no row.
C1_AllOrNothing ==
    (pc = "done" /\ fault \in CopyFaults) => table.rows = << >>

\* The failure hits record 2, after record 1 was submitted.
C1_Witness ==
    /\ pc = "done"
    /\ fault \in {"read", "copy"}
    /\ errLine = 2
    /\ Count("submit") >= 1
    /\ table.rows = << >>

\* C2: for a well-formed input with N data records and no failing step, the
\* invocation returns nil and the relation holds exactly the N records as
\* rows, in source order, under the normalised header columns in header
\* order, each field in the column of its position.
C2_LoadsEveryRecord ==
    (pc = "done" /\ WellFormed(file) /\ fault = "none") =>
        /\ result = "ok"
        /\ table = [exists |-> TRUE, cols |-> ExpectedCols(file),
                    rows |-> ExpectedRows(file)]
        /\ Len(table.rows) = NumData(file)

\* "B-A,a" with two records x,y loaded as columns b_a, a.
C2_Witness ==
    /\ pc = "done"
    /\ result = "ok"
    /\ table.cols = << <<"b", "_", "a">>, <<"a">> >>
    /\ table.rows = << <<"x", "y">>, <<"x", "y">> >>

\* C3: once db.Begin succeeded, copyInsert has called tx.Rollback as its last
\* act before returning, the unit is not open at return, a failed load never
\* leaves it committed, and the rollback that follows a successful commit
\* leaves the committed rows in place.
C3_RollbackBeforeReturn ==
    (pc \in {"returned", "done"} /\ Issued("begin") /\ fault # "begin") =>
        /\ log[Len(log)] = Op("rollback", 0)
        /\ txState \in {"committed", "aborted", "rolledback"}
        /\ (fault # "none" => txState # "committed")
        /\ (txState = "committed" => table.rows = ExpectedRows(file))

\* Finalize fails after a row was submitted; the unit was rolled back.
C3_Witness ==
    /\ pc = "done"
    /\ fault = "finalize"
    /\ txState = "rolledback"
    /\ lineCount >= 1

\* The rollback after a successful commit of two rows.
C3_WitnessCommitted ==
    /\ pc = "done"
    /\ txState = "committed"
    /\ Len(table.rows) = 2

\* C4: nil is returned and the final summary printed only if the commit
\* succeeded; if any of open, header read, drop, create, begin, prepare,
\* record read, row submit, finalize, close or commit fails, an error is
\* returned and no final summary is printed.
C4_SuccessOnlyAfterCommit ==
    pc = "done" =>
        /\ (result = "ok" =>
                txState = "committed" /\ fault = "none" /\ summary = lineCount)
        /\ (summary # -1 => result = "ok")
        /\ (fault # "none" => result \notin {"ok", "none"} /\ summary = -1)

\* The commit of a one-row load is rejected.
C4_Witness ==
    /\ pc = "done"
    /\ fault = "commit"
    /\ result = "commit"
    /\ lineCount >= 1
    /\ summary = -1

\* C5 as stated: a data record whose field count differs from the header's
\* is read without error and submitted to the COPY channel.
C5_RaggedPassedThrough ==
    \A k \in 1..MaxRecords :
        (pc = "done" /\ HasHeader(file) /\ k <= NumData(file)
            /\ pos >= k + 1 /\ Ragged(file, k)) =>
            /\ Op("submit", k) \in { log[i] : i \in DOMAIN log }
            /\ fault # "read"

\* C5 as amended: the reader checks each data record's field count against
\* the header's.  A record with another field count fails the read with a
\* source read error carrying its index and is never submitted; every record
\* that is submitted has the header's field count and is passed unchanged.
C5_RaggedRejectedBySource ==
    /\ \A k \in 1..MaxRecords :
           (HasHeader(file) /\ k <= NumData(file)
               /\ pos >= k + 1 /\ Ragged(file, k)) =>
               /\ fault = "read"
               /\ errLine = k
               /\ ~(Op("submit", k) \in { log[i] : i \in DOMAIN log })
    /\ (pc = "loop_exec" =>
           /\ record = file.recs[pos].fields
           /\ Len(record) = Len(headers))
    /\ \A i \in DOMAIN chanBuf : chanBuf[i] = file.recs[i + 1].fields

\* The second data record is ragged and the load fails reading it.
C5_Witness ==
    /\ pc = "done"
    /\ HasHeader(file)
    /\ NumData(file) = 2
    /\ Ragged(file, 2)
    /\ result = "read"
    /\ errLine = 2

\* What an invocation leaves behind, as a function of its file and of the
\* call that failed, whatever the tuning statements did.
ExpectedResult == IF fault = "none" THEN "ok" ELSE fault
ExpectedTable ==
    CASE fault \in {"open", "header", "drop"} -> tableAtCall
      [] fault = "create" -> NoTable
      [] fault = "none" ->
            [exists |-> TRUE, cols |-> ExpectedCols(file), rows |-> ExpectedRows(file)]
      [] OTHER ->
            [exists |-> TRUE, cols |-> ExpectedCols(file), rows |-> << >>]

\* C6: whichever tuning statements the destination rejects, all of them are
\* issued in list order, the accepted ones take effect, no error comes of
\* it, the drop follows, and the invocation ends as its file and the other
\* calls decide.
C6_TuningBestEffort ==
    /\ (pc = "tune" =>
           SubSeq(log, 3, Len(log)) = TuneOps(tuneIdx - 1))
    /\ ((pc \notin {"idle", "open", "read_header", "tune"}
            /\ fault \notin {"open", "header"}) =>
           /\ Len(log) >= NumOptimizations + 2
           /\ SubSeq(log, 3, NumOptimizations + 2) = TuneOps(NumOptimizations)
           /\ Count("tune") = NumOptimizations
           /\ (pc # "drop" => log[NumOptimizations + 3] = Op("drop", 0))
           /\ settings = (1..NumOptimizations) \ unsupported)
    /\ (pc = "done" =>
           /\ result = ExpectedResult
           /\ table = ExpectedTable)

\* Five of the nine statements are rejected and the load succeeds.
C6_Witness ==
    /\ pc = "done"
    /\ unsupported = {2, 3, 4, 7, 9}
    /\ settings = {1, 5, 6, 8}
    /\ result = "ok"
    /\ Len(table.rows) = 1

\* Every statement is rejected and the load succeeds.
C6_WitnessAll ==
    /\ pc = "done"
    /\ unsupported = 1..NumOptimizations
    /\ result = "ok"

\* C7: the drop is issued before the create; a rejected drop is followed by
\* no create; when either is rejected the invocation fails with no atomic
\* unit begun, no COPY statement prepared and no data record read.
C7_DropThenCreate ==
    /\ \A i \in DOMAIN log :
           log[i][1] = "create" => \E j \in 1..(i - 1) : log[j][1] = "drop"
    /\ Count("drop") <= 1
    /\ Count("create") <= 1
    /\ (Issued("create") => fault # "drop")
    /\ ((pc = "done" /\ fault \in {"drop", "create"}) =>
           /\ result = fault
           /\ txState = "none"
           /\ stmtState = "none"
           /\ ~Issued("begin")
           /\ ~Issued("prepare")
           /\ ~Issued("read")
           /\ pos = 1)

\* The drop of an existing relation is rejected.
C7_Witness ==
    /\ pc = "done"
    /\ fault = "drop"
    /\ tableAtCall.exists
    /\ ~Issued("create")

\* C8: a file with a header and no data record loads: the relation has the
\* normalised header columns and no row, no row was submitted, finalize,
\* close and commit were issued, and the reported count is 0.
C8_HeaderOnly ==
    (pc = "done" /\ HasHeader(file) /\ NumData(file) = 0 /\ fault = "none") =>
        /\ result = "ok"
        /\ table = [exists |-> TRUE, cols |-> ExpectedCols(file), rows |-> << >>]
        /\ summary = 0
        /\ ~Issued("submit")
        /\ Count("finalize") = 1
        /\ Count("close") = 1
        /\ Count("commit") = 1
        /\ txState = "committed"

\* A header-only file loaded over a relation that had rows.
C8_Witness ==
    /\ pc = "done"
    /\ HasHeader(file)
    /\ NumData(file) = 0
    /\ result = "ok"
    /\ tableAtCall.rows # << >>

\* C9: destructive recreation.  After an invocation over an existing
\* relation, nothing of the earlier relation remains: once the drop went
\* through the relation is absent, once the create went through its columns
\* are the normalised header of this invocation, and on success its rows are
\* the records of this invocation only.
C9_DestructiveRecreation ==
    /\ (pc = "create" => table = NoTable)
    /\ ((Issued("create") /\ fault # "create") =>
           /\ table.exists
           /\ table.cols = ExpectedCols(file)
           /\ table.rows \in {<< >>, ExpectedRows(file)})
    /\ ((pc = "done" /\ result = "ok") =>
           /\ table.cols = ExpectedCols(file)
           /\ table.rows = ExpectedRows(file))

\* A second load with another header over a relation the first one filled.
C9_Witness ==
    /\ pc = "done"
    /\ result = "ok"
    /\ tableAtCall.exists
    /\ tableAtCall.cols # table.cols
    /\ tableAtCall.rows # << >>
    /\ table.rows # << >>

\* C10: when the file is empty or its first record is malformed, the
\* invocation fails reading the header and the destination is as it was: no
\* tuning statement, drop, create or begin was issued.
C10_HeaderErrorLeavesDestination ==
    (pc = "done" /\ file.openable
        /\ (file.recs = << >> \/ ~file.recs[1].ok)) =>
        /\ result = "header"
        /\ table = tableAtCall
        /\ log = << Op("open", 0), Op("header", 0) >>
        /\ txState = "none"

\* An empty or malformed file offered over a relation that has rows.
C10_Witness ==
    /\ pc = "done"
    /\ result = "header"
    /\ tableAtCall.exists
    /\ tableAtCall.rows # << >>

\* Successful row submits of this invocation.
SubmittedOk == Count("submit") - (IF fault = "copy" THEN 1 ELSE 0)

\* C11: when reading or submitting a data record fails, the error carries
\* the 1-based index K of that record among the data records, and exactly
\* K-1 records were submitted before the failure.
C11_ErrorCarriesRecordIndex ==
    (fault \in {"read", "copy"}) =>
        /\ errLine = pos - 1
        /\ errLine \in 1..NumData(file)
        /\ (fault = "read" =>
               ~file.recs[errLine + 1].ok \/ Ragged(file, errLine))
        /\ SubmittedOk = errLine - 1
        /\ lineCount = errLine - 1
        /\ \A k \in 1..(errLine - 1) :
               Op("submit", k) \in { log[i] : i \in DOMAIN log }
        /\ (pc = "done" => result = fault)

\* The submit of the second record is rejected after the first went through.
C11_Witness ==
    /\ pc = "done"
    /\ result = "copy"
    /\ errLine = 2
    /\ SubmittedOk = 1

\* C12: the progress counter starts at 0, never decreases within an
\* invocation, goes up by exactly 1 with each successful row submit and at no
\* other time, so it always equals the number of records submitted; on
\* success the count of the final summary is that number, N.
C12_ProgressCounter ==
    /\ [](/\ lineCount = SubmittedOk
          /\ ((pc = "done" /\ result = "ok") =>
                 summary = SubmittedOk /\ summary = NumData(file)))
    /\ [][pc' # "open" =>
            /\ lineCount' >= lineCount
            /\ (lineCount' # lineCount =>
                   /\ lineCount' = lineCount + 1
                   /\ pc = "loop_exec"
                   /\ chanBuf' = Append(chanBuf, record))
            /\ ((pc = "loop_exec" /\ pc' = "loop_read") =>
                   lineCount' = lineCount + 1)]_vars

\* Two records submitted and reported.
C12_Witness ==
    /\ pc = "done"
    /\ result = "ok"
    /\ lineCount = 2
    /\ summary = 2

\* C13: header normalisation is idempotent, its result holds no space, no
\* hyphen and no upper-case letter, and it works column by column: as many
\* columns as the header, in the same order, each name as long as before,
\* with spaces and hyphens turned into underscores, upper case into lower
\* case and every other character kept.
C13_NormalizeIdempotent ==
    /\ (pc = "norm_again" =>
           /\ Len(cleanHeaders) = Len(headers)
           /\ \A i \in DOMAIN headers :
                  /\ Len(cleanHeaders[i]) = Len(headers[i])
                  /\ CleanHeader(cleanHeaders[i]) = cleanHeaders[i]
                  /\ \A j \in DOMAIN headers[i] :
                         /\ cleanHeaders[i][j] \notin {" ", "-"} \cup UpperCase
                         /\ (headers[i][j] \in {" ", "-"} => cleanHeaders[i][j] = "_")
                         /\ (headers[i][j] \notin {" ", "-"} \cup UpperCase =>
                                cleanHeaders[i][j] = headers[i][j]))
    /\ (pc = "norm_done" => cleanHeaders = headers)

\* "A ,-B" normalised to "a_,_b", and normalised again.
C13_Witness ==
    /\ pc = "norm_done"
    /\ headers = << <<"a", "_">>, <<"_", "b">> >>
    /\ cleanHeaders = headers

CopyPhaseFaults == {"prepare", "read", "copy", "finalize", "close", "commit"}
\* The call of the log that a fault belongs to.
FaultOp(f) == IF f = "copy" THEN "submit" ELSE f

\* C14: fail-fast, no retry.  After the first failing call of the copy phase
\* nothing more is read, submitted, finalized, closed or committed: the
\* failing call is the last one of the invocation but for the deferred
\* rollback, no call is issued a second time, and the error returned is the
\* error of that call.
C14_FailFast ==
    /\ \A i, j \in DOMAIN log : i < j => log[i] # log[j]
    /\ (fault \in CopyPhaseFaults =>
           LET n == Len(log)
               last == IF log[n][1] = "rollback" THEN n - 1 ELSE n
           IN  /\ log[last][1] = FaultOp(fault)
               /\ Count("rollback") <= 1
               /\ ret.err = fault
               /\ pc \in {"deferred", "returned", "done"}
               /\ (pc = "done" => result = fault))

\* The first of two records is rejected; the second is never read.
C14_Witness ==
    /\ pc = "done"
    /\ result = "copy"
    /\ errLine = 1
    /\ NumData(file) = 2
    /\ pos = 2

\* Calls named name among the first n of the log.
CountBefore(name, n) == Cardinality({ i \in 1..(n - 1) : log[i][1] = name })
\* The read that met the end of the stream.
EofRead == Op("read", NumData(file) + 1)

\* C15: copy-phase ordering.  The COPY statement is prepared right after a
\* successful begin; finalize is issued at most once, right after the read
\* that met the end of the stream and with every record read before it
\* submitted, and exactly once in every invocation that met the end of the
\* stream; close follows a successful finalize, commit a successful close;
\* no row is submitted after finalize.
C15_CopyPhaseOrder ==
    /\ \A i \in DOMAIN log :
           /\ (log[i][1] = "prepare" =>
                  i > 1 /\ log[i - 1][1] = "begin" /\ fault # "begin")
           /\ (log[i][1] = "finalize" =>
                  /\ HasHeader(file)
                  /\ log[i - 1] = EofRead
                  /\ CountBefore("submit", i) = NumData(file)
                  /\ CountBefore("read", i) = NumData(file) + 1)
           /\ (log[i][1] = "close" =>
                  log[i - 1][1] = "finalize" /\ fault # "finalize")
           /\ (log[i][1] = "commit" =>
                  log[i - 1][1] = "close" /\ fault # "close")
           /\ (log[i][1] = "submit" => CountBefore("finalize", i) = 0)
    /\ Count("finalize") <= 1
    /\ ((HasHeader(file) /\ EofRead \in { log[i] : i \in DOMAIN log }
            /\ pc # "finalize") => Count("finalize") = 1)
    /\ (pc \in {"prepare", "loop_read", "loop_exec", "finalize", "close", "commit"} =>
           txState = "open")
    /\ (pc \in {"loop_read", "loop_exec", "finalize"} => stmtState = "open")
    /\ (pc = "close" => stmtState = "finalized")
    /\ (pc = "commit" => stmtState = "closed")

\* Two records streamed, then finalize, close and commit.
C15_Witness ==
    /\ pc = "done"
    /\ result = "ok"
    /\ Count("submit") = 2
    /\ Count("finalize") = 1
    /\ Count("commit") = 1

\* C16: the drop and the create are outside the atomic unit, so a failure in
\* copyInsert does not bring an earlier relation back: after it the relation
\* exists with the normalised header of this invocation as columns and no
\* row, and the rows of the earlier relation are gone.
C16_FailureKeepsNewSchema ==
    (pc = "done" /\ fault \in CopyPhaseFaults \cup {"begin"}) =>
        /\ table = [exists |-> TRUE, cols |-> ExpectedCols(file), rows |-> << >>]
        /\ (tableAtCall.rows # << >> => table # tableAtCall)
        /\ txState # "committed"

\* A row is rejected while loading over a relation that had other columns
\* and rows.
C16_Witness ==
    /\ pc = "done"
    /\ fault = "copy"
    /\ tableAtCall.exists
    /\ tableAtCall.rows # << >>
    /\ tableAtCall.cols # table.cols
    /\ table.rows = << >>

\* C17: streaming.  The reader only moves forward, one record per read, so
\* each data record is read at most once; the rows submitted are the records
\* read so far, once each and in source order; at most one record is read
\* and not yet submitted, and it is the one held in record.
C17_Streaming ==
    /\ [](/\ (pc = "loop_read" => pos - 1 = lineCount)
          /\ (pc = "loop_exec" =>
                 /\ pos - 1 = lineCount + 1
                 /\ record = file.recs[pos].fields)
          /\ (pc \in {"loop_read", "loop_exec", "finalize"} =>
                 /\ chanBuf = [k \in 1..lineCount |-> file.recs[k + 1].fields]
                 /\ Count("submit") = lineCount
                 /\ Count("read") - Count("submit") \in {0, 1})
          /\ \A i, j \in DOMAIN log :
                 (i < j /\ log[i][1] = log[j][1] /\ log[i][1] \in {"read", "submit"}) =>
                     log[i][2] < log[j][2])
    /\ [][pc' # "open" =>
            /\ pos' \in {pos, pos + 1}
            /\ (pos' = pos + 1 => pc \in {"read_header", "loop_read"})]_vars

\* The second record is read once the first has been submitted.
C17_Witness ==
    /\ pc = "loop_exec"
    /\ pos = 3
    /\ lineCount = 1
    /\ Len(chanBuf) = 1

\* C18: termination.  With a source and a destination that answer every
\* call, an invocation that has started returns; it reads at most N+1
\* records after the header; the loop is left to finalize on the read that
\* meets the end of the stream, or to the return on the first read or submit
\* error, and in no other way.
C18_Termination ==
    /\ [](pc \notin {"idle", "done"} => <>(pc = "done"))
    /\ [](Count("read") <= NumData(file) + 1)
    /\ [][(pc \in {"loop_read", "loop_exec"} /\ pc' \notin {"loop_read", "loop_exec"}) =>
            \/ /\ pc = "loop_read"
               /\ pc' = "finalize"
               /\ pos = Len(file.recs)
               /\ fault' = "none"
            \/ /\ pc' = "deferred"
               /\ fault = "none"
               /\ fault' = IF pc = "loop_read" THEN "read" ELSE "copy"]_vars

\* The loop has met the end of a two-record stream on its third read.
C18_Witness ==
    /\ pc = "done"
    /\ NumData(file) = 2
    /\ Count("read") = 3
    /\ result = "ok"

\* The positive multiples of c up to n, in increasing order.
Multiples(c, n) == [i \in 1..(n \div c) |-> i * c]
\* read 1, submit 1, ..., read k, submit k.
Stream(k) ==
    [i \in 1..(2 * k) |->
        IF i % 2 = 1 THEN Op("read", (i + 1) \div 2) ELSE Op("submit", i \div 2)]
\* The calls of an invocation as its file, the failing call and the index of
\* the failing record decide them.
ExpectedLog ==
    LET n == NumData(file)
        prep == << Op("open", 0), Op("header", 0) >> \o TuneOps(NumOptimizations)
        ddl == prep \o << Op("drop", 0), Op("create", 0) >>
        copy == ddl \o << Op("begin", 0), Op("prepare", 0) >>
        eof == copy \o Stream(n) \o << Op("read", n + 1), Op("finalize", 0) >>
        back == << Op("rollback", 0) >>
    IN  CASE fault = "open" -> << Op("open", 0) >>
          [] fault = "header" -> << Op("open", 0), Op("header", 0) >>
          [] fault = "drop" -> prep \o << Op("drop", 0) >>
          [] fault = "create" -> ddl
          [] fault = "begin" -> ddl \o << Op("begin", 0) >>
          [] fault = "prepare" -> copy \o back
          [] fault = "read" ->
                copy \o Stream(errLine - 1) \o << Op("read", errLine) >> \o back
          [] fault = "copy" -> copy \o Stream(errLine) \o back
          [] fault = "finalize" -> eof \o back
          [] fault = "close" -> eof \o << Op("close", 0) >> \o back
          [] OTHER -> eof \o << Op("close", 0), Op("commit", 0) >> \o back

\* C19: progress reporting only observes.  The reports printed so far are
\* the positive multiples of the cadence up to the number of records
\* submitted, each carrying the count at which it was printed; the calls of
\* the invocation, the rows it leaves and the error it returns are those its
\* file and the failing call decide, whatever the cadence.
C19_ProgressObservational ==
    /\ reports = Multiples(cadence, lineCount)
    /\ lineCount = SubmittedOk
    /\ (pc = "done" =>
           /\ log = ExpectedLog
           /\ result = ExpectedResult
           /\ table = ExpectedTable
           /\ (result = "ok" => summary = NumData(file)))

\* With a cadence of 2, one report at the second record of a two-record load.
C19_Witness ==
    /\ pc = "done"
    /\ result = "ok"
    /\ cadence = 2
    /\ lineCount = 2
    /\ reports = << 2 >>

\* With the cadence of the source no report falls within the files checked.
C19_WitnessSourceCadence ==
    /\ pc = "done"
    /\ result = "ok"
    /\ cadence = ProgressEvery
    /\ lineCount = 2
    /\ reports = << >>

====
